---- MODULE Spec2Model ----
(***************************************************************************)
(* Model of meerkat/interactive/app/src/lib/utils/requests.ts: the two     *)
(* async helpers get(url) and post(url, data) over fetch, Response.ok,     *)
(* Response.json() and JSON.stringify.                                     *)
(*                                                                         *)
(* Text (URLs, bodies, error messages) is a sequence of one-character      *)
(* strings.  JavaScript values are tagged records.                         *)
(***************************************************************************)
EXTENDS Integers, Sequences, FiniteSets, TLC

(***************************************************************************)
(* JavaScript values                                                       *)
(***************************************************************************)
Undef == [t |-> "undefined"]
Null == [t |-> "null"]
True == [t |-> "bool", b |-> TRUE]
False == [t |-> "bool", b |-> FALSE]
NaN == [t |-> "nan"]
NegZero == [t |-> "negzero"]
BigInt1 == [t |-> "bigint"]
\* a reference back to an enclosing object (o.self = o)
Cycle == [t |-> "cycle"]
\* the caller's mutable payload object, passed by reference
PayloadRef == [t |-> "ref"]
Num(n) == [t |-> "num", n |-> n]
Str(s) == [t |-> "str", s |-> s]
Arr(items) == [t |-> "arr", items |-> items]
Obj(props) == [t |-> "obj", props |-> props]

(***************************************************************************)
(* Text helpers                                                            *)
(***************************************************************************)
DigitChars == <<"0", "1", "2", "3", "4", "5", "6", "7", "8", "9">>

IsDigit(ch) == \E d \in 1..10 : DigitChars[d] = ch

DigitVal(ch) == (CHOOSE d \in 1..10 : DigitChars[d] = ch) - 1

RECURSIVE NatToText(_)
\* Number::toString of a non-negative integer
NatToText(n) ==
    IF n < 10 THEN <<DigitChars[n + 1]>>
    ELSE NatToText(n \div 10) \o <<DigitChars[(n % 10) + 1]>>

\* Number::toString of an integer: the string a number contributes to a
\* concatenation ('HTTP status ' + res.status) or to JSON text
NumToText(n) == IF n < 0 THEN <<"-">> \o NatToText(0 - n) ELSE NatToText(n)

\* m contains p as a contiguous substring
Contains(m, p) ==
    \E i \in 1..(Len(m) + 1) :
        /\ i + Len(p) - 1 <= Len(m)
        /\ \A k \in 1..Len(p) : m[i + k - 1] = p[k]

\* m starts with p
StartsWith(m, p) ==
    /\ Len(p) <= Len(m)
    /\ \A k \in 1..Len(p) : m[k] = p[k]

RECURSIVE Join(_)
\* concatenation of a sequence of texts
Join(parts) ==
    IF parts = <<>> THEN <<>> ELSE Head(parts) \o Join(Tail(parts))

(***************************************************************************)
(* JSON.stringify                                                          *)
(***************************************************************************)
SerText(txt) == [r |-> "text", text |-> txt]
SerUndefined == [r |-> "undefined"]
SerThrow == [r |-> "throw"]

\* the characters of a string's content written out unescaped
QuoteCharsRaw(s) == s

RECURSIVE QuoteChars(_)
\* the escaped characters of a string's content (QuoteJSONString)
QuoteChars(s) ==
    IF s = <<>> THEN <<>>
    ELSE (CASE Head(s) = "\"" -> <<"\\", "\"">>
            [] Head(s) = "\\" -> <<"\\", "\\">>
            [] Head(s) = "\n" -> <<"\\", "n">>
            [] OTHER -> <<Head(s)>>) \o QuoteChars(Tail(s))

QuoteJSONString(s) == <<"\"">> \o QuoteChars(s) \o <<"\"">>

RECURSIVE SerializeJSONProperty(_)
RECURSIVE SerializeJSONArray(_, _)
RECURSIVE SerializeJSONObject(_, _)

\* items: the elements still to write; first: no element written yet.
\* Yields the text after "[" or SerThrow.
SerializeJSONArray(items, first) ==
    IF items = <<>> THEN SerText(<<"]">>)
    ELSE LET e == SerializeJSONProperty(Head(items))
             rest == SerializeJSONArray(Tail(items), FALSE)
             sep == IF first THEN <<>> ELSE <<",">>
         IN  IF e.r = "throw" \/ rest.r = "throw" THEN SerThrow
             ELSE IF e.r = "undefined"
                  THEN SerText(sep \o <<"n", "u", "l", "l">> \o rest.text)
                  ELSE SerText(sep \o e.text \o rest.text)

\* props: the <<key, value>> pairs still to write; first: nothing written yet.
\* Yields the text after "{" or SerThrow.
SerializeJSONObject(props, first) ==
    IF props = <<>> THEN SerText(<<"}">>)
    ELSE LET e == SerializeJSONProperty(Head(props)[2])
         IN  IF e.r = "throw" THEN SerThrow
             ELSE IF e.r = "undefined" THEN SerializeJSONObject(Tail(props), first)
             ELSE LET rest == SerializeJSONObject(Tail(props), FALSE)
                      sep == IF first THEN <<>> ELSE <<",">>
                  IN  IF rest.r = "throw" THEN SerThrow
                      ELSE SerText(sep \o QuoteJSONString(Head(props)[1]) \o <<":">>
                                       \o e.text \o rest.text)

SerializeJSONProperty(v) ==
    CASE v.t = "undefined" -> SerUndefined
      [] v.t = "null" -> SerText(<<"n", "u", "l", "l">>)
      [] v.t = "bool" -> SerText(IF v.b THEN <<"t", "r", "u", "e">>
                                        ELSE <<"f", "a", "l", "s", "e">>)
      [] v.t = "nan" -> SerText(<<"n", "u", "l", "l">>)
      [] v.t = "negzero" -> SerText(<<"0">>)
      [] v.t = "num" -> SerText(NumToText(v.n))
      [] v.t = "str" -> SerText(QuoteJSONString(v.s))
      [] v.t = "bigint" -> SerThrow
      [] v.t = "cycle" -> SerThrow
      [] v.t = "arr" ->
            LET r == SerializeJSONArray(v.items, TRUE)
            IN  IF r.r = "throw" THEN SerThrow ELSE SerText(<<"[">> \o r.text)
      [] v.t = "obj" ->
            LET r == SerializeJSONObject(v.props, TRUE)
            IN  IF r.r = "throw" THEN SerThrow ELSE SerText(<<"{">> \o r.text)

\* JSON.stringify(v): a text, undefined, or a thrown TypeError
Stringify(v) == SerializeJSONProperty(v)

(***************************************************************************)
(* JSON.parse (the decoder behind Response.json()); numbers are integers   *)
(***************************************************************************)
ParseFail == [ok |-> FALSE, val |-> Null, pos |-> 0]
ParseOk(v, p) == [ok |-> TRUE, val |-> v, pos |-> p]

IsWs(ch) == ch \in {" ", "\n", "\t"}

RECURSIVE SkipWs(_, _)
\* the first position at or after i that holds no whitespace
SkipWs(s, i) ==
    IF i <= Len(s) /\ IsWs(s[i]) THEN SkipWs(s, i + 1) ELSE i

\* the literal lit stands at position i of s
MatchAt(s, i, lit) ==
    /\ i + Len(lit) - 1 <= Len(s)
    /\ \A k \in 1..Len(lit) : s[i + k - 1] = lit[k]

RECURSIVE ParseDigits(_, _, _)
\* the digits from position i on, accumulated onto acc
ParseDigits(s, i, acc) ==
    IF i <= Len(s) /\ IsDigit(s[i])
    THEN ParseDigits(s, i + 1, acc * 10 + DigitVal(s[i]))
    ELSE [n |-> acc, pos |-> i]

\* -? ( 0 | [1-9][0-9]* )
ParseNumber(s, i) ==
    LET neg == s[i] = "-"
        j == IF neg THEN i + 1 ELSE i
    IN  IF j > Len(s) \/ ~IsDigit(s[j]) THEN ParseFail
        ELSE IF s[j] = "0"
             THEN ParseOk(IF neg THEN NegZero ELSE Num(0), j + 1)
             ELSE LET d == ParseDigits(s, j, 0)
                  IN  ParseOk(Num(IF neg THEN 0 - d.n ELSE d.n), d.pos)

RECURSIVE ParseString(_, _, _)
\* the characters after an opening quote, up to the closing one
ParseString(s, i, acc) ==
    IF i > Len(s) THEN ParseFail
    ELSE IF s[i] = "\"" THEN ParseOk(Str(acc), i + 1)
    ELSE IF s[i] = "\n" \/ s[i] = "\t" THEN ParseFail
    ELSE IF s[i] = "\\"
         THEN IF i + 1 > Len(s) THEN ParseFail
              ELSE CASE s[i + 1] = "\"" -> ParseString(s, i + 2, Append(acc, "\""))
                     [] s[i + 1] = "\\" -> ParseString(s, i + 2, Append(acc, "\\"))
                     [] s[i + 1] = "/" -> ParseString(s, i + 2, Append(acc, "/"))
                     [] s[i + 1] = "n" -> ParseString(s, i + 2, Append(acc, "\n"))
                     [] s[i + 1] = "t" -> ParseString(s, i + 2, Append(acc, "\t"))
                     [] OTHER -> ParseFail
    ELSE ParseString(s, i + 1, Append(acc, s[i]))

RECURSIVE SetProp(_, _, _)
\* define key k as v: a repeated key keeps its place and takes the last value
SetProp(props, k, v) ==
    IF props = <<>> THEN << <<k, v>> >>
    ELSE IF Head(props)[1] = k THEN << <<k, v>> >> \o Tail(props)
    ELSE <<Head(props)>> \o SetProp(Tail(props), k, v)

RECURSIVE ParseValue(_, _)
RECURSIVE ParseElements(_, _, _)
RECURSIVE ParseMembers(_, _, _)

\* the elements of an array from position i on, after those in acc
ParseElements(s, i, acc) ==
    LET r == ParseValue(s, i)
    IN  IF ~r.ok THEN ParseFail
        ELSE LET j == SkipWs(s, r.pos)
             IN  IF j > Len(s) THEN ParseFail
                 ELSE IF s[j] = "," THEN ParseElements(s, j + 1, Append(acc, r.val))
                 ELSE IF s[j] = "]" THEN ParseOk(Arr(Append(acc, r.val)), j + 1)
                 ELSE ParseFail

\* the members of an object from position i on, after those in acc
ParseMembers(s, i, acc) ==
    LET j == SkipWs(s, i)
    IN  IF j > Len(s) \/ s[j] # "\"" THEN ParseFail
        ELSE LET k == ParseString(s, j + 1, <<>>)
             IN  IF ~k.ok THEN ParseFail
                 ELSE LET c == SkipWs(s, k.pos)
                      IN  IF c > Len(s) \/ s[c] # ":" THEN ParseFail
                          ELSE LET r == ParseValue(s, c + 1)
                               IN  IF ~r.ok THEN ParseFail
                                   ELSE LET e == SkipWs(s, r.pos)
                                            props == SetProp(acc, k.val.s, r.val)
                                        IN  IF e > Len(s) THEN ParseFail
                                            ELSE IF s[e] = "," THEN ParseMembers(s, e + 1, props)
                                            ELSE IF s[e] = "}" THEN ParseOk(Obj(props), e + 1)
                                            ELSE ParseFail

\* one JSON value from position i on, leading whitespace skipped
ParseValue(s, i) ==
    LET j == SkipWs(s, i)
    IN  IF j > Len(s) THEN ParseFail
        ELSE CASE s[j] = "n" ->
                    IF MatchAt(s, j, <<"n", "u", "l", "l">>) THEN ParseOk(Null, j + 4)
                    ELSE ParseFail
               [] s[j] = "t" ->
                    IF MatchAt(s, j, <<"t", "r", "u", "e">>) THEN ParseOk(True, j + 4)
                    ELSE ParseFail
               [] s[j] = "f" ->
                    IF MatchAt(s, j, <<"f", "a", "l", "s", "e">>) THEN ParseOk(False, j + 5)
                    ELSE ParseFail
               [] s[j] = "\"" -> ParseString(s, j + 1, <<>>)
               [] s[j] = "-" \/ IsDigit(s[j]) -> ParseNumber(s, j)
               [] s[j] = "[" ->
                    LET e == SkipWs(s, j + 1)
                    IN  IF e <= Len(s) /\ s[e] = "]" THEN ParseOk(Arr(<<>>), e + 1)
                        ELSE ParseElements(s, j + 1, <<>>)
               [] s[j] = "{" ->
                    LET e == SkipWs(s, j + 1)
                    IN  IF e <= Len(s) /\ s[e] = "}" THEN ParseOk(Obj(<<>>), e + 1)
                        ELSE ParseMembers(s, j + 1, <<>>)
               [] OTHER -> ParseFail

\* JSON.parse(s): one value and nothing but whitespace after it, else a
\* SyntaxError (ok = FALSE)
Parse(s) ==
    LET r == ParseValue(s, 1)
    IN  IF r.ok /\ SkipWs(s, r.pos) = Len(s) + 1 THEN r ELSE ParseFail

(***************************************************************************)
(* The environment: callers, URLs, the caller's payload object, responses  *)
(***************************************************************************)
\* number of calls that may be in flight together
NumCalls == 2

Calls == 1..NumCalls

Urls == {<<"/", "a", "p", "i">>}

\* contents the caller gives its payload object: {a: 1}, {a: NaN}, and
\* o.a = o (a circular structure)
PayloadContents ==
    { Obj(<< <<<<"a">>, Num(1)>> >>),
      Obj(<< <<<<"a">>, NaN>> >>),
      Obj(<< <<<<"a">>, Cycle>> >>) }

\* what a caller passes as data
PayloadArgs == {PayloadRef}

Statuses == {199, 200, 299, 300, 404}

\* the status text the server sends with a status
ReasonPhrase(status) ==
    CASE status = 200 -> <<"O", "K">>
      [] status = 300 -> <<"M", "u", "l", "t", "i">>
      [] status = 404 -> <<"N", "o", "t", " ", "F", "o", "u", "n", "d">>
      [] OTHER -> <<>>

\* {"a":1}
BodyObject == <<"{", "\"", "a", "\"", ":", "1", "}">>
\* [true, 20]
BodyArray == <<"[", "t", "r", "u", "e", ",", " ", "2", "0", "]">>
\* {"a":
BodyTruncated == <<"{", "\"", "a", "\"", ":">>

Response(st, b) == [status |-> st, statusText |-> ReasonPhrase(st), body |-> b]

\* every status with a body that is not JSON, {"a":1} under 200, 299 and 404,
\* and [true, 20] under 200
Responses ==
    { Response(st, BodyTruncated) : st \in Statuses }
        \cup { Response(st, BodyObject) : st \in {200, 299, 404} }
        \cup { Response(200, BodyArray) }

(***************************************************************************)
(* State                                                                   *)
(***************************************************************************)
VARIABLES
    pc,     \* pc[c]: "idle", "fetch" (await fetch), "json" (await res.json()), "done"
    kind,   \* kind[c]: "none", "get" or "post"
    url,    \* url[c]: the url argument
    data,   \* data[c]: the data argument of post
    sent,   \* sent[c]: the requests call c has handed to fetch, in order
    res,    \* res[c]: the Response that fetch resolved with
    out,    \* out[c]: how the promise of call c settled
    steps,  \* steps[c]: the stages call c has run, in order
    heap    \* the content of the caller's payload object

vars == <<pc, kind, url, data, sent, res, out, steps, heap>>

NoRes == [t |-> "none"]
Pending == [k |-> "pending"]
Value(v) == [k |-> "value", v |-> v]
\* name: "HttpError" (the Error thrown on !res.ok), "EncodeError" (JSON.stringify
\* threw), "DecodeError" (res.json() rejected), "TransportError" (fetch rejected)
Err(name, msg) == [k |-> "error", name |-> name, message |-> msg]

\* the value an argument denotes now
Resolve(d) == IF d.t = "ref" THEN heap ELSE d

\* fetch(url)
GetRequest(u) ==
    [method |-> "GET", url |-> u, headers |-> {}, body |-> SerUndefined]

\* fetch(url, {body: JSON.stringify(data)}): the method and headers left out
PostRequestBodyOnly(u, body) ==
    [method |-> "GET", url |-> u, headers |-> {}, body |-> body]

\* fetch(url, {method: 'POST', headers: {...}, body: JSON.stringify(data)})
PostRequest(u, body) ==
    [method |-> "POST", url |-> u,
     headers |-> {<<"Content-Type", "application/json">>},
     body |-> body]

OkLo == 200
OkHi == 299

\* Response.ok with the upper boundary off by one
OkThrough300(r) == r.status >= OkLo /\ r.status <= OkHi + 1

\* Response.ok
Ok(r) == r.status >= OkLo /\ r.status <= OkHi

\* a JSON.stringify result as string concatenation sees it
AsString(r) ==
    IF r.r = "undefined" THEN <<"u", "n", "d", "e", "f", "i", "n", "e", "d">>
    ELSE r.text

HttpStatusText == <<"H", "T", "T", "P", " ", "s", "t", "a", "t", "u", "s", " ">>
UrlLabel == <<"\n", " ", "u", "r", "l", ":", " ">>
DataLabel == <<"\n", " ", "d", "a", "t", "a", ":", " ">>

\* 'HTTP status ' + res.status
GetMessage(r) == HttpStatusText \o NumToText(r.status)

\* "HTTP status " + res.status + ": " + res.statusText + "\n url: " + url
\*   + "\n data: " + JSON.stringify(data)
PostMessage(r, u, ser) ==
    Join(<<HttpStatusText, NumToText(r.status), <<":", " ">>, r.statusText,
           UrlLabel, u, DataLabel, AsString(ser)>>)

Init ==
    /\ pc = [c \in Calls |-> "idle"]
    /\ kind = [c \in Calls |-> "none"]
    /\ url = [c \in Calls |-> <<>>]
    /\ data = [c \in Calls |-> Undef]
    /\ sent = [c \in Calls |-> <<>>]
    /\ res = [c \in Calls |-> NoRes]
    /\ out = [c \in Calls |-> Pending]
    /\ steps = [c \in Calls |-> <<>>]
    /\ heap \in PayloadContents

(***************************************************************************)
(* get(url)                                                                *)
(***************************************************************************)
\* the call, up to `await fetch(url)`
Get(c, u) ==
    /\ pc[c] = "idle"
    /\ kind' = [kind EXCEPT ![c] = "get"]
    /\ url' = [url EXCEPT ![c] = u]
    /\ sent' = [sent EXCEPT ![c] = Append(@, GetRequest(u))]
    /\ steps' = [steps EXCEPT ![c] = Append(@, "send")]
    /\ pc' = [pc EXCEPT ![c] = "fetch"]
    /\ UNCHANGED <<data, res, out, heap>>

\* get keeping its response in one variable that all calls share
GetResponseShared(c, r) ==
    /\ pc[c] = "fetch"
    /\ kind[c] = "get"
    /\ res' = [d \in Calls |-> r]
    /\ IF ~(r.status >= 200 /\ r.status <= 299)
       THEN /\ out' = [out EXCEPT ![c] = Err("HttpError", HttpStatusText \o NumToText(r.status))]
            /\ steps' = [steps EXCEPT ![c] = Append(@, "check")]
            /\ pc' = [pc EXCEPT ![c] = "done"]
       ELSE /\ out' = out
            /\ steps' = [steps EXCEPT ![c] = @ \o <<"check", "decode">>]
            /\ pc' = [pc EXCEPT ![c] = "json"]
    /\ UNCHANGED <<kind, url, data, sent, heap>>

\* fetch resolved with r: the status check, then the throw or `await res.json()`
GetResponse(c, r) ==
    /\ pc[c] = "fetch"
    /\ kind[c] = "get"
    /\ res' = [res EXCEPT ![c] = r]
    /\ IF ~Ok(r)
       THEN /\ out' = [out EXCEPT ![c] = Err("HttpError", GetMessage(r))]
            /\ steps' = [steps EXCEPT ![c] = Append(@, "check")]
            /\ pc' = [pc EXCEPT ![c] = "done"]
       ELSE /\ out' = out
            /\ steps' = [steps EXCEPT ![c] = @ \o <<"check", "decode">>]
            /\ pc' = [pc EXCEPT ![c] = "json"]
    /\ UNCHANGED <<kind, url, data, sent, heap>>

\* get without its `return json`
GetJsonNoReturn(c) ==
    /\ pc[c] = "json"
    /\ kind[c] = "get"
    /\ LET p == Parse(res[c].body)
       IN  IF p.ok
           THEN /\ out' = [out EXCEPT ![c] = Value(Undef)]
                /\ steps' = [steps EXCEPT ![c] = Append(@, "return")]
           ELSE /\ out' = [out EXCEPT ![c] = Err("DecodeError", <<>>)]
                /\ steps' = steps
    /\ pc' = [pc EXCEPT ![c] = "done"]
    /\ UNCHANGED <<kind, url, data, sent, res, heap>>

\* res.json() settled: `return json`, or the rejection propagates
GetJson(c) ==
    /\ pc[c] = "json"
    /\ kind[c] = "get"
    /\ LET p == Parse(res[c].body)
       IN  IF p.ok
           THEN /\ out' = [out EXCEPT ![c] = Value(p.val)]
                /\ steps' = [steps EXCEPT ![c] = Append(@, "return")]
           ELSE /\ out' = [out EXCEPT ![c] = Err("DecodeError", <<>>)]
                /\ steps' = steps
    /\ pc' = [pc EXCEPT ![c] = "done"]
    /\ UNCHANGED <<kind, url, data, sent, res, heap>>

(***************************************************************************)
(* post(url, data)                                                         *)
(***************************************************************************)
\* the call, up to `await fetch(url, {...})`; JSON.stringify(data) runs first
Post(c, u, d) ==
    /\ pc[c] = "idle"
    /\ kind' = [kind EXCEPT ![c] = "post"]
    /\ url' = [url EXCEPT ![c] = u]
    /\ data' = [data EXCEPT ![c] = d]
    /\ LET body == Stringify(Resolve(d))
       IN  IF body.r = "throw"
           THEN /\ out' = [out EXCEPT ![c] = Err("EncodeError", <<>>)]
                /\ pc' = [pc EXCEPT ![c] = "done"]
                /\ UNCHANGED <<sent, steps>>
           ELSE /\ sent' = [sent EXCEPT ![c] = Append(@, PostRequest(u, body))]
                /\ steps' = [steps EXCEPT ![c] = Append(@, "send")]
                /\ pc' = [pc EXCEPT ![c] = "fetch"]
                /\ out' = out
    /\ UNCHANGED <<res, heap>>

\* fetch resolved with r: the status check, then the throw (whose message
\* calls JSON.stringify(data) again) or `await res.json()`
PostResponse(c, r) ==
    /\ pc[c] = "fetch"
    /\ kind[c] = "post"
    /\ res' = [res EXCEPT ![c] = r]
    /\ IF ~Ok(r)
       THEN /\ LET ser == Stringify(Resolve(data[c]))
               IN  out' = [out EXCEPT ![c] =
                              IF ser.r = "throw" THEN Err("EncodeError", <<>>)
                              ELSE Err("HttpError", PostMessage(r, url[c], ser))]
            /\ steps' = [steps EXCEPT ![c] = Append(@, "check")]
            /\ pc' = [pc EXCEPT ![c] = "done"]
       ELSE /\ out' = out
            /\ steps' = [steps EXCEPT ![c] = @ \o <<"check", "decode">>]
            /\ pc' = [pc EXCEPT ![c] = "json"]
    /\ UNCHANGED <<kind, url, data, sent, heap>>

\* post with the decode failure caught and turned into a null result
PostJsonSwallow(c) ==
    /\ pc[c] = "json"
    /\ kind[c] = "post"
    /\ LET p == Parse(res[c].body)
       IN  IF p.ok
           THEN /\ out' = [out EXCEPT ![c] = Value(p.val)]
                /\ steps' = [steps EXCEPT ![c] = Append(@, "return")]
           ELSE /\ out' = [out EXCEPT ![c] = Value(Null)]
                /\ steps' = [steps EXCEPT ![c] = Append(@, "return")]
    /\ pc' = [pc EXCEPT ![c] = "done"]
    /\ UNCHANGED <<kind, url, data, sent, res, heap>>

\* res.json() settled: `return json`, or the rejection propagates
PostJson(c) ==
    /\ pc[c] = "json"
    /\ kind[c] = "post"
    /\ LET p == Parse(res[c].body)
       IN  IF p.ok
           THEN /\ out' = [out EXCEPT ![c] = Value(p.val)]
                /\ steps' = [steps EXCEPT ![c] = Append(@, "return")]
           ELSE /\ out' = [out EXCEPT ![c] = Err("DecodeError", <<>>)]
                /\ steps' = steps
    /\ pc' = [pc EXCEPT ![c] = "done"]
    /\ UNCHANGED <<kind, url, data, sent, res, heap>>

(***************************************************************************)
(* The host and the caller                                                 *)
(***************************************************************************)
\* fetch rejected and the request is issued once more
FetchRejectsRetry(c) ==
    /\ pc[c] = "fetch"
    /\ Len(sent[c]) = 1
    /\ sent' = [sent EXCEPT ![c] = Append(@, @[1])]
    /\ UNCHANGED <<pc, kind, url, data, res, out, steps, heap>>

\* fetch rejected (no response): the await throws and the call rejects
FetchRejects(c) ==
    /\ pc[c] = "fetch"
    /\ out' = [out EXCEPT ![c] = Err("TransportError", <<>>)]
    /\ pc' = [pc EXCEPT ![c] = "done"]
    /\ UNCHANGED <<kind, url, data, sent, res, steps, heap>>

\* the caller changes its payload object while calls are suspended
Mutate(v) ==
    /\ v # heap
    /\ heap' = v
    /\ UNCHANGED <<pc, kind, url, data, sent, res, out, steps>>

Next ==
    \/ \E c \in Calls, u \in Urls : Get(c, u)
    \/ \E c \in Calls, r \in Responses : GetResponse(c, r)
    \/ \E c \in Calls : GetJson(c)
    \/ \E c \in Calls, u \in Urls, d \in PayloadArgs : Post(c, u, d)
    \/ \E c \in Calls, r \in Responses : PostResponse(c, r)
    \/ \E c \in Calls : PostJson(c)
    \/ \E c \in Calls : FetchRejects(c)
    \/ \E v \in PayloadContents : Mutate(v)

Spec == Init /\ [][Next]_vars

(***************************************************************************)
(* Properties                                                              *)
(***************************************************************************)
Responded(c) == res[c] # NoRes

Is2xx(status) == status \in 200..299

Failed(c, name) == out[c].k = "error" /\ out[c].name = name

\* the number an 'HTTP status <n>...' message carries
CarriedStatus(msg) == ParseDigits(msg, Len(HttpStatusText) + 1, 0).n

\* C1: a get call whose response has a status outside 200..299 (199 and 300
\* included) has failed with an HttpError that carries exactly that status
\* code, and has returned no value.
C1_GetNon2xxFails ==
    \A c \in Calls :
        (kind[c] = "get" /\ Responded(c) /\ ~Is2xx(res[c].status)) =>
            /\ pc[c] = "done"
            /\ Failed(c, "HttpError")
            /\ StartsWith(out[c].message, HttpStatusText)
            /\ CarriedStatus(out[c].message) = res[c].status

\* a get call answered 300 has failed carrying 300, and another answered 199
\* has failed carrying 199
C1_Witness ==
    \E c, d \in Calls :
        /\ kind[c] = "get" /\ Responded(c) /\ res[c].status = 300
        /\ Failed(c, "HttpError") /\ CarriedStatus(out[c].message) = 300
        /\ kind[d] = "get" /\ Responded(d) /\ res[d].status = 199
        /\ Failed(d, "HttpError") /\ CarriedStatus(out[d].message) = 199

\* {a: 1}
ObjectA1 == Obj(<< <<<<"a">>, Num(1)>> >>)

\* C2: a get call that has finished on a response with a status in 200..299
\* and a body that is valid JSON text has returned exactly the value the body
\* decodes to (for {"a":1}: {a: 1}), and no error.
C2_GetReturnsDecodedBody ==
    \A c \in Calls :
        (/\ kind[c] = "get" /\ pc[c] = "done" /\ Responded(c)
         /\ Is2xx(res[c].status) /\ Parse(res[c].body).ok) =>
            /\ out[c] = Value(Parse(res[c].body).val)
            /\ res[c].body = BodyObject => out[c] = Value(ObjectA1)

\* a get call answered 200 with body {"a":1} has returned {a: 1}
C2_Witness ==
    \E c \in Calls :
        /\ kind[c] = "get" /\ pc[c] = "done" /\ Responded(c)
        /\ res[c].status = 200 /\ res[c].body = BodyObject
        /\ out[c] = Value(ObjectA1)

\* C3: the step in which post is called with a payload that serializes hands
\* fetch one request with method POST, header Content-Type: application/json
\* and a body equal to the JSON serialization of the payload; and the step in
\* which a post call finishes on a 2xx response with a JSON body returns the
\* decoded body.
C3_PostSendsSerializedPayload ==
    [][\A c \in Calls :
        /\ (/\ pc[c] = "idle" /\ kind'[c] = "post"
            /\ Stringify(Resolve(data'[c])).r # "throw") =>
                /\ Len(sent'[c]) = 1
                /\ sent'[c][1].method = "POST"
                /\ sent'[c][1].url = url'[c]
                /\ <<"Content-Type", "application/json">> \in sent'[c][1].headers
                /\ sent'[c][1].body = Stringify(Resolve(data'[c]))
        /\ (/\ kind[c] = "post" /\ pc[c] = "json" /\ pc'[c] = "done"
            /\ Is2xx(res[c].status) /\ Parse(res[c].body).ok) =>
                out'[c] = Value(Parse(res[c].body).val)
      ]_vars

\* a post call of the payload {a: 1} sent the body {"a":1} and, answered 200
\* with [true, 20], returned [true, 20]
C3_Witness ==
    \E c \in Calls :
        /\ kind[c] = "post" /\ pc[c] = "done" /\ Len(sent[c]) = 1
        /\ sent[c][1].body = SerText(BodyObject)
        /\ Responded(c) /\ res[c].status = 200 /\ res[c].body = BodyArray
        /\ out[c] = Value(Arr(<<True, Num(20)>>))

\* C5: a call that has not finished has produced nothing; a finished call has
\* produced either a value or an error; it has produced a value only if a
\* request went out, a 2xx response came back and its body decoded, and every
\* failure (payload not encodable, transport failure, non-2xx status, body
\* not valid JSON) has ended in an error.
C5_FailuresAreRaised ==
    \A c \in Calls :
        /\ pc[c] # "done" => out[c] = Pending
        /\ pc[c] = "done" =>
            /\ out[c].k \in {"value", "error"}
            /\ sent[c] = <<>> => out[c].k = "error"
            /\ (sent[c] # <<>> /\ ~Responded(c)) => out[c].k = "error"
            /\ (Responded(c) /\ ~Is2xx(res[c].status)) => out[c].k = "error"
            /\ (Responded(c) /\ Is2xx(res[c].status) /\ ~Parse(res[c].body).ok) =>
                    out[c].k = "error"
            /\ out[c].k = "value" =>
                    /\ sent[c] # <<>> /\ Responded(c) /\ Is2xx(res[c].status)
                    /\ Parse(res[c].body).ok

\* one call has failed on a body that is not JSON, another on its transport
C5_Witness ==
    \E c, d \in Calls :
        /\ pc[c] = "done" /\ Responded(c) /\ Is2xx(res[c].status)
        /\ res[c].body = BodyTruncated /\ out[c].k = "error"
        /\ pc[d] = "done" /\ sent[d] # <<>> /\ ~Responded(d) /\ out[d].k = "error"

\* C6: a call has issued at most one request; a call that is awaiting, or has
\* finished, has issued exactly one, except a finished post call whose payload
\* could not be serialized: it has issued none, got no response and failed
\* with EncodeError.
C6_OneRequestPerCall ==
    \A c \in Calls :
        /\ Len(sent[c]) <= 1
        /\ pc[c] \in {"fetch", "json"} => Len(sent[c]) = 1
        /\ pc[c] = "done" =>
            \/ Len(sent[c]) = 1
            \/ /\ Len(sent[c]) = 0 /\ kind[c] = "post"
               /\ ~Responded(c) /\ Failed(c, "EncodeError")

\* a post call has failed with EncodeError without a request, and another
\* call has failed on its transport after exactly one
C6_Witness ==
    \E c, d \in Calls :
        /\ pc[c] = "done" /\ kind[c] = "post" /\ sent[c] = <<>>
        /\ Failed(c, "EncodeError")
        /\ pc[d] = "done" /\ Len(sent[d]) = 1 /\ Failed(d, "TransportError")

\* C4: a post call whose response has a status outside 200..299 has failed
\* with an HttpError whose message contains the status code, the status text,
\* the URL passed to the call, and the serialized payload it sent; it has
\* returned no value.
C4_PostErrorHasContext ==
    \A c \in Calls :
        (kind[c] = "post" /\ Responded(c) /\ ~Is2xx(res[c].status)) =>
            /\ pc[c] = "done"
            /\ Failed(c, "HttpError")
            /\ Contains(out[c].message, NumToText(res[c].status))
            /\ Contains(out[c].message, res[c].statusText)
            /\ Contains(out[c].message, url[c])
            /\ Contains(out[c].message, AsString(sent[c][1].body))

Stages == <<"send", "check", "decode", "return">>

IsPrefix(p, q) == Len(p) <= Len(q) /\ \A i \in 1..Len(p) : p[i] = q[i]

Ran(c, stage) == \E i \in 1..Len(steps[c]) : steps[c][i] = stage

\* C9: the stages a call has run are a prefix of send, check, decode, return;
\* a call has started decoding only on a 2xx response; and a call whose
\* response is not 2xx has not decoded the body and has failed with HttpError,
\* also when the body is not valid JSON.
C9_LinearStages ==
    \A c \in Calls :
        /\ IsPrefix(steps[c], Stages)
        /\ Ran(c, "decode") => (Responded(c) /\ Is2xx(res[c].status))
        /\ (Responded(c) /\ ~Is2xx(res[c].status)) =>
            /\ pc[c] = "done"
            /\ ~Ran(c, "decode")
            /\ Failed(c, "HttpError")

\* C10: the serialized payload that the HttpError of a post call reports is
\* the body the call sent.
C10_ReportedPayloadIsSentBody ==
    \A c \in Calls :
        (kind[c] = "post" /\ pc[c] = "done" /\ Failed(c, "HttpError")) =>
            out[c].message = PostMessage(res[c], url[c], sent[c][1].body)

\* this step changes some part of the state of call c
CallChanges(c) ==
    \/ pc'[c] # pc[c] \/ out'[c] # out[c] \/ res'[c] # res[c]
    \/ sent'[c] # sent[c] \/ kind'[c] # kind[c] \/ url'[c] # url[c]
    \/ data'[c] # data[c] \/ steps'[c] # steps[c]

RoundTripLeaves ==
    { Undef, Null, True, False, NaN, NegZero, BigInt1, Num(0), Num(-7), Num(12),
      Str(<<>>), Str(<<"a">>), Str(<<"\"", "\\", "\n">>) }

RoundTripFlat ==
    RoundTripLeaves
        \cup { Arr(<<>>), Obj(<<>>) }
        \cup { Arr(<<p>>) : p \in RoundTripLeaves }
        \cup { Obj(<< <<<<"a">>, p>> >>) : p \in RoundTripLeaves }

RoundTripPayloads ==
    RoundTripFlat
        \cup { Arr(<<p, q>>) : p \in RoundTripLeaves, q \in RoundTripFlat }
        \cup { Obj(<< <<<<"a">>, p>>, <<<<"k", "\"">>, q>> >>) :
                 p \in RoundTripLeaves, q \in RoundTripFlat }
        \cup { PayloadRef }

RECURSIVE IsJsonValue(_)
\* v is built from null, booleans, finite numbers other than -0, strings,
\* arrays and string-keyed objects only
IsJsonValue(v) ==
    CASE v.t \in {"null", "bool", "num", "str"} -> TRUE
      [] v.t = "arr" -> \A i \in 1..Len(v.items) : IsJsonValue(v.items[i])
      [] v.t = "obj" -> \A i \in 1..Len(v.props) : IsJsonValue(v.props[i][2])
      [] OTHER -> FALSE

\* post calls by the first caller, of any payload
NextRT == \E u \in Urls, d \in RoundTripPayloads : Post(1, u, d)

SpecRT == Init /\ [][NextRT]_vars

\* C8 as stated: whenever post has sent a request whose body is the text
\* that the payload serialized to, decoding that body gives back the payload.
C8_RoundTripAnySerializable ==
    \A c \in Calls :
        (kind[c] = "post" /\ Len(sent[c]) = 1 /\ sent[c][1].body.r = "text") =>
            /\ Parse(sent[c][1].body.text).ok
            /\ Parse(sent[c][1].body.text).val = Resolve(data[c])

\* C8: whenever post has been called with a payload built from null, booleans,
\* finite numbers other than -0, strings, arrays and string-keyed objects
\* only, it has sent a request, and decoding the body it sent gives back the
\* payload.
C8_RoundTripJsonValues ==
    \A c \in Calls :
        (kind[c] = "post" /\ IsJsonValue(Resolve(data[c]))) =>
            /\ Len(sent[c]) = 1
            /\ sent[c][1].body.r = "text"
            /\ Parse(sent[c][1].body.text).ok
            /\ Parse(sent[c][1].body.text).val = Resolve(data[c])

\* post has sent {"a":"\"\\\n","k\"":[12]} for a payload with those members,
\* which decodes back to the payload
C8_Witness ==
    \E c \in Calls :
        /\ kind[c] = "post" /\ Len(sent[c]) = 1
        /\ data[c] = Obj(<< <<<<"a">>, Str(<<"\"", "\\", "\n">>)>>,
                            <<<<"k", "\"">>, Arr(<<Num(12)>>)>> >>)
        /\ sent[c][1].body.r = "text"
        /\ Parse(sent[c][1].body.text).val = data[c]

====
